---- MODULE Spec2Model ----
(***************************************************************************)
(* Evidence records over a Merkle hash tree (src/evidence_record.py) and   *)
(* the driver that creates, renews and verifies them (src/ervis.py).       *)
(*                                                                         *)
(* Digests are Python strings and are modelled as TLA+ strings; the        *)
(* "hash" of the library is string concatenation with "+", as in the      *)
(* source.  Tree nodes are dictionaries that reference each other; they    *)
(* are modelled as an arena (tree.nodes) indexed from 1, a reference       *)
(* being the index of the node and 0 standing for Python's None.  Two     *)
(* trees of equal content are different objects: a tree kept by a caller   *)
(* carries the identity of its object as the field id, and a reference     *)
(* held outside the tree names the tree object and the node's index.       *)
(* Instants are floats returned by time.time(); they are modelled as       *)
(* integer ticks, TicksPerSecond ticks making the "1" the source adds.     *)
(***************************************************************************)
EXTENDS Integers, Sequences, FiniteSets, TLC

(***************************************************************************)
(* Bounds of the model.                                                    *)
(***************************************************************************)
\* Leaves of a tree in the tree specification (SpecTree).
MaxLeaves == 4
\* Leaves of the driver's initial tree, records it holds, links all its
\* renewals append, and the last instant of the clock.
MaxInitial == 3
MaxRecords == 2
MaxRenewed == 2
MaxTime == 1

\* Sub-second resolution: the literal 1 (second) of the source is this many
\* ticks of the clock.
TicksPerSecond == 2

\* Digests of the driver's documents: two of the driver's initial_hashes.
Digests == {"h1", "h2"}
\* Leaf digests of the tree specification; "a+b" is also the digest of the
\* parent of leaves "a" and "b".
TreeDigests == {"a", "b", "a+b"}
NewDigests == {"H1"}
Algorithms == {"SHA256", "SHA512"}
\* The algorithm under which the driver creates its records.
DriverAlgorithm == "SHA256"
\* A digest that no tree or record of the model contains.
Forged == "X"

(***************************************************************************)
(* Python's None: for an absent string argument, and for an absent node,   *)
(* path or record.                                                         *)
(***************************************************************************)
Absent == "<None>"
None == [none |-> TRUE]

\* Python truthiness of an optional string: None and "" are falsy.
Truthy(s) == s # Absent /\ s # ""

with_bracket == FALSE

\* hash_pair with its operands exchanged.
hash_pair_swapped(left, right, write_brackets) ==
    IF Truthy(right) /\ write_brackets /\ with_bracket
    THEN "(" \o right \o ") + (" \o left \o ")"
    ELSE IF Truthy(right)
         THEN right \o "+" \o left
         ELSE left

hash_pair(left, right, write_brackets) ==
    IF Truthy(right) /\ write_brackets /\ with_bracket
    THEN "(" \o left \o ") + (" \o right \o ")"
    ELSE IF Truthy(right)
         THEN left \o "+" \o right
         ELSE left

(***************************************************************************)
(* create_hashtree.  A tree is [nodes, levels, root]: nodes is the flat    *)
(* registry in creation order, levels[k] the node references of level k    *)
(* (levels[1] is the source's levels[0]), root a node reference.           *)
(***************************************************************************)
LeafNode(h, i) ==
    [hash |-> h, left |-> 0, right |-> 0, parent |-> 0, level |-> 1,
     is_leaf |-> TRUE,
     leaf_position |-> IF (i - 1) % 2 = 0 THEN "left" ELSE "right"]

\* One pass of the while loop: the parents of level cur are appended as
\* level cur + 1 and every paired node gets its parent reference.
AddLevel(tree, cur) ==
    LET lv == tree.levels[cur]
        n == Len(lv)
        np == (n + 1) \div 2
        base == Len(tree.nodes)
        lft(j) == lv[2 * j - 1]
        rgt(j) == IF 2 * j <= n THEN lv[2 * j] ELSE 0
        parent(j) ==
            [hash |-> hash_pair(tree.nodes[lft(j)].hash,
                                IF rgt(j) # 0 THEN tree.nodes[rgt(j)].hash
                                              ELSE Absent,
                                FALSE),
             left |-> lft(j), right |-> rgt(j), parent |-> 0,
             level |-> cur, is_leaf |-> FALSE]
        parentOf(k) ==
            LET js == {j \in 1..np : lft(j) = k \/ rgt(j) = k}
            IN IF js = {} THEN tree.nodes[k].parent
                          ELSE base + (CHOOSE j \in js : TRUE)
        old == [k \in 1..base |->
                   [tree.nodes[k] EXCEPT !.parent = parentOf(k)]]
    IN [nodes |-> old \o [j \in 1..np |-> parent(j)],
        levels |-> Append(tree.levels, [j \in 1..np |-> base + j]),
        root |-> 0]

RECURSIVE BuildLevels(_, _)
BuildLevels(tree, cur) ==
    IF Len(tree.levels[cur]) > 1
    THEN BuildLevels(AddLevel(tree, cur), cur + 1)
    ELSE tree

\* create_hashtree that takes the root with a guard: for an empty list it
\* returns the tree dict with 'root' still None.
create_hashtree_unrooted(hash_values) ==
    LET leaves == [i \in 1..Len(hash_values) |-> LeafNode(hash_values[i], i)]
        start == [nodes |-> leaves,
                  levels |-> <<[i \in 1..Len(hash_values) |-> i]>>,
                  root |-> 0]
        built == BuildLevels(start, 1)
        top == built.levels[Len(built.levels)]
    IN IF Len(top) = 0
       THEN built
       ELSE [built EXCEPT !.root = top[1]]

\* The result is a tree, or the exception the call ends in.
create_hashtree(hash_values) ==
    LET leaves == [i \in 1..Len(hash_values) |-> LeafNode(hash_values[i], i)]
        start == [nodes |-> leaves,
                  levels |-> <<[i \in 1..Len(hash_values) |-> i]>>,
                  root |-> 0]
        built == BuildLevels(start, 1)
        top == built.levels[Len(built.levels)]
    IN IF Len(top) = 0
       THEN [raised |-> "IndexError"]
       ELSE [built EXCEPT !.root = top[1]]

IsTree(t) == "nodes" \in DOMAIN t

\* The tree dict a create_hashtree call returned, as the object it is: id
\* is the identity of the dict.  An exception is no object.
Allocated(t, id) ==
    IF IsTree(t)
    THEN [nodes |-> t.nodes, levels |-> t.levels, root |-> t.root, id |-> id]
    ELSE t

(***************************************************************************)
(* create_timestamp.  The instant read from time.time() is the argument t. *)
(***************************************************************************)
create_timestamp(hash_value, timestamp_hash_algorithm, t) ==
    [hash |-> hash_value, time |-> t, algorithm |-> timestamp_hash_algorithm]

(***************************************************************************)
(* reduce_tree.  A path node is a record; its children are path nodes,     *)
(* stubs or None.  The stub of the source stores the full tree node under  *)
(* 'leaf_position': that reference is [ref |-> index in tree.nodes,        *)
(* tree |-> the tree object], since the node reaches the whole tree        *)
(* through its parent and child references.                                *)
(***************************************************************************)
\* The search with a default: the first node of the registry when no node
\* carries the target.
FindNodeDefault(tree, target_hash) ==
    LET hits == {i \in 1..Len(tree.nodes) : tree.nodes[i].hash = target_hash}
    IN IF hits = {} THEN 1
       ELSE CHOOSE i \in hits : \A k \in hits : i <= k

\* The first node of the registry whose digest is the target, 0 if none.
FindNode(tree, target_hash) ==
    LET hits == {i \in 1..Len(tree.nodes) : tree.nodes[i].hash = target_hash}
    IN IF hits = {} THEN 0
       ELSE CHOOSE i \in hits : \A k \in hits : i <= k

Stub(tree, k) ==
    [hash |-> tree.nodes[k].hash, is_leaf |-> tree.nodes[k].is_leaf,
     leaf_position |-> [ref |-> k, tree |-> tree]]

\* PathStep without its else branch: the path so far always becomes the left
\* child and the right child of the tree node the stub.
PathStepLeftOnly(tree, current_reduced, current) ==
    LET cur == tree.nodes[current]
    IN [hash |-> cur.hash,
        left |-> current_reduced,
        right |-> IF cur.right # 0 THEN Stub(tree, cur.right) ELSE None,
        is_leaf |-> FALSE]

\* One pass of the while loop: the path node made for tree node current.
PathStep(tree, current_reduced, current) ==
    LET cur == tree.nodes[current]
    IN IF cur.left # 0 /\ tree.nodes[cur.left].hash = current_reduced.hash
       THEN [hash |-> cur.hash,
             left |-> current_reduced,
             right |-> IF cur.right # 0 THEN Stub(tree, cur.right) ELSE None,
             is_leaf |-> FALSE]
       ELSE [hash |-> cur.hash,
             left |-> Stub(tree, cur.left),
             right |-> current_reduced,
             is_leaf |-> FALSE]

\* The walk to the root with "if" for "while": it stops at the parent.
ClimbOnce(tree, current_reduced, current) ==
    IF current = 0
    THEN current_reduced
    ELSE PathStep(tree, current_reduced, current)

RECURSIVE Climb(_, _, _)
Climb(tree, current_reduced, current) ==
    IF current = 0
    THEN current_reduced
    ELSE Climb(tree, PathStep(tree, current_reduced, current),
               tree.nodes[current].parent)

\* The result is a path, None (target not found) or the exception raised.
reduce_tree(tree, target_hash) ==
    LET found == FindNode(tree, target_hash)
        node == tree.nodes[found]
    IN IF found = 0
       THEN None
       ELSE IF "leaf_position" \notin DOMAIN node
            THEN [raised |-> "KeyError"]
            ELSE Climb(tree,
                       [hash |-> node.hash, left |-> None, right |-> None,
                        is_leaf |-> node.is_leaf,
                        leaf_position |-> node.leaf_position],
                       node.parent)

(***************************************************************************)
(* reduce_tree on the objects.  reduce_tree above gives the value a call   *)
(* returns; here the same statements run on the dicts themselves, to give  *)
(* what a call leaves behind.  objs is the sequence of the dicts alive     *)
(* during a call: objs[1..n] are the node dicts of the tree in the order   *)
(* of tree['nodes'], and every dict the call creates is appended.  A       *)
(* reference is an index into objs, 0 standing for None; the references    *)
(* the tree nodes hold (left, right, parent) are references of this kind   *)
(* already.  The function never names tree['levels'] or tree['root'].      *)
(***************************************************************************)
\* A dict display {...}: the store with the new dict and the reference to it.
NewDict(objs, d) == [objs |-> Append(objs, d), ref |-> Len(objs) + 1]

\* ref[key] = value, for a key the dict has.
SetItem(objs, ref, key, value) == [objs EXCEPT ![ref][key] = value]

\* The path node of a pass taken in place: the tree node itself, no new dict.
NewNodeInPlace(objs, current) == [objs |-> objs, ref |-> current]

\* new_node = {'hash': current['hash'], 'left': None, 'right': None,
\*             'is_leaf': False}
NewNode(objs, current) ==
    NewDict(objs, [hash |-> objs[current].hash, left |-> 0, right |-> 0,
                   is_leaf |-> FALSE])

\* The sibling dict made for tree node k: its digest, its leaf flag and the
\* node itself under 'leaf_position'.
NewStub(objs, k) ==
    NewDict(objs, [hash |-> objs[k].hash, is_leaf |-> objs[k].is_leaf,
                   leaf_position |-> k])

\* One pass of the while loop on the objects: the store it leaves and
\* new_node.  Every read is of the store as the statements before it left it.
ReducePass(objs, current_reduced, current) ==
    LET made == NewNode(objs, current)
        new_node == made.ref
        o1 == made.objs
    IN IF o1[current].left # 0
          /\ o1[o1[current].left].hash = o1[current_reduced].hash
       THEN LET o2 == SetItem(o1, new_node, "left", current_reduced)
            IN IF o2[current].right # 0
               THEN LET stub == NewStub(o2, o2[current].right)
                    IN [objs |-> SetItem(stub.objs, new_node, "right", stub.ref),
                        ref |-> new_node]
               ELSE [objs |-> o2, ref |-> new_node]
       ELSE LET o2 == SetItem(o1, new_node, "right", current_reduced)
                stub == NewStub(o2, o2[current].left)
            IN [objs |-> SetItem(stub.objs, new_node, "left", stub.ref),
                ref |-> new_node]

\* The while loop on the objects, from tree node current on.
RECURSIVE ReduceClimb(_, _, _)
ReduceClimb(objs, current_reduced, current) ==
    IF current = 0
    THEN [objs |-> objs, ref |-> current_reduced]
    ELSE LET pass == CHOOSE pass \in {ReducePass(objs, current_reduced,
                                                 current)} : TRUE
         IN ReduceClimb(pass.objs, pass.ref, pass.objs[current].parent)

\* A call on a tree of n nodes: the store it leaves and the reference it
\* returns (0 is None), or the exception it raised.
reduce_tree_objects(objs, n, target_hash) ==
    LET found == FindNode([nodes |-> SubSeq(objs, 1, n)], target_hash)
        first == NewDict(objs, [hash |-> objs[found].hash,
                                left |-> 0, right |-> 0,
                                is_leaf |-> objs[found].is_leaf,
                                leaf_position |-> objs[found].leaf_position])
    IN IF found = 0
       THEN [objs |-> objs, ref |-> 0]
       ELSE IF "leaf_position" \notin DOMAIN objs[found]
            THEN [objs |-> objs, raised |-> "KeyError"]
            ELSE ReduceClimb(first.objs, first.ref, first.objs[found].parent)

\* The tree object with its node dicts as they are in the store.
TreeAfter(tree, objs) ==
    [tree EXCEPT !.nodes = SubSeq(objs, 1, Len(tree.nodes))]

\* The tree as a reduce_tree call for target_hash leaves it.
TreeReduced(tree, target_hash) ==
    TreeAfter(tree, reduce_tree_objects(tree.nodes, Len(tree.nodes),
                                        target_hash).objs)

\* The structure under reference ref as a value: a path node with its
\* children, or a stub with the tree node it references.
RECURSIVE Unfold(_, _, _)
Unfold(tree, objs, ref) ==
    IF ref = 0
    THEN None
    ELSE LET d == objs[ref]
         IN IF "left" \notin DOMAIN d
            THEN [hash |-> d.hash, is_leaf |-> d.is_leaf,
                  leaf_position |-> [ref |-> d.leaf_position, tree |-> tree]]
            ELSE IF "leaf_position" \in DOMAIN d
            THEN [hash |-> d.hash,
                  left |-> Unfold(tree, objs, d.left),
                  right |-> Unfold(tree, objs, d.right),
                  is_leaf |-> d.is_leaf,
                  leaf_position |-> d.leaf_position]
            ELSE [hash |-> d.hash,
                  left |-> Unfold(tree, objs, d.left),
                  right |-> Unfold(tree, objs, d.right),
                  is_leaf |-> d.is_leaf]

\* What a call that ended as run returned, as a value.
Returned(tree, run) ==
    IF "raised" \in DOMAIN run
    THEN [raised |-> run.raised]
    ELSE Unfold(TreeAfter(tree, run.objs), run.objs, run.ref)

(***************************************************************************)
(* create_evidence_record                                                  *)
(***************************************************************************)
create_evidence_record(tree, reduced_tree, hash_algorithm, t) ==
    [version |-> 1,
     digestAlgorithm |-> hash_algorithm,
     cryptoInfos |-> <<>>,
     encryptionInfo |-> None,
     archiveTimeStampSequence |->
        <<[reduced |-> reduced_tree,
           timestamp |-> create_timestamp(tree.nodes[tree.root].hash,
                                          hash_algorithm, t)]>>]

(***************************************************************************)
(* encode_atsc: the timestamps' digests, concatenated.                     *)
(***************************************************************************)
RECURSIVE encode_atsc(_)
encode_atsc(sequence) ==
    IF sequence = <<>>
    THEN ""
    ELSE sequence[1].timestamp.hash \o encode_atsc(Tail(sequence))

(***************************************************************************)
(* renew_hashtree.  heap is the sequence of record objects, a batch entry  *)
(* is [rec |-> reference into heap, hash |-> new document digest], and     *)
(* times[k] is the instant read by the k-th create_timestamp call.         *)
(***************************************************************************)
\* First loop: one combined hash per batch entry.
NewHashes(heap, records_and_hashes) ==
    [k \in 1..Len(records_and_hashes) |->
        LET atsc == encode_atsc(
                heap[records_and_hashes[k].rec].archiveTimeStampSequence)
            atsc_hash == hash_pair(atsc, Absent, FALSE)
        IN hash_pair(records_and_hashes[k].hash, atsc_hash, TRUE)]

(***************************************************************************)
(* Python's == on the objects of the heap, as list.index applies it.  An   *)
(* object equals itself; two different dicts are compared item by item in  *)
(* the order their keys were inserted, two lists by length and then item   *)
(* by item, and the first unequal item ends the comparison.  The tree      *)
(* nodes reference each other in cycles (child to parent and back): a      *)
(* comparison of two different nodes that comes back to the same two       *)
(* nodes never ends and Python raises RecursionError.  The outcome is      *)
(* "eq", "ne" or "raised".                                                 *)
(***************************************************************************)
Eq(x, y) == IF x = y THEN "eq" ELSE "ne"

\* Tree nodes n1 of tree t1 and n2 of tree t2 (0 is None); stack holds the
\* comparisons of nodes that are under way.  A node's keys in order: hash,
\* left, right, parent, level, is_leaf and, for a leaf, leaf_position.
RECURSIVE NodeEq(_, _, _, _, _)
NodeEq(t1, n1, t2, n2, stack) ==
    LET a == t1.nodes[n1]
        b == t2.nodes[n2]
        deeper == stack \cup {<<t1.id, n1, t2.id, n2>>}
        hash == Eq(a.hash, b.hash)
        left == NodeEq(t1, a.left, t2, b.left, deeper)
        right == NodeEq(t1, a.right, t2, b.right, deeper)
        parent == NodeEq(t1, a.parent, t2, b.parent, deeper)
        level == Eq(a.level, b.level)
        is_leaf == Eq(a.is_leaf, b.is_leaf)
    IN IF n1 = 0 /\ n2 = 0 THEN "eq"
       ELSE IF n1 = 0 \/ n2 = 0 THEN "ne"
       ELSE IF t1.id = t2.id /\ n1 = n2 THEN "eq"
       ELSE IF <<t1.id, n1, t2.id, n2>> \in stack THEN "raised"
       ELSE IF DOMAIN a # DOMAIN b THEN "ne"
       ELSE IF hash # "eq" THEN hash
       ELSE IF left # "eq" THEN left
       ELSE IF right # "eq" THEN right
       ELSE IF parent # "eq" THEN parent
       ELSE IF level # "eq" THEN level
       ELSE IF is_leaf # "eq" THEN is_leaf
       ELSE IF "leaf_position" \in DOMAIN a
            THEN Eq(a.leaf_position, b.leaf_position)
            ELSE "eq"

\* Two paths, or children of path nodes, of different records.  A live
\* node's keys in order: hash, left, right, is_leaf and, for the leaf,
\* leaf_position; a stub's: hash, is_leaf, leaf_position (the tree node).
RECURSIVE PathEq(_, _)
PathEq(p, q) ==
    LET hash == Eq(p.hash, q.hash)
        left == PathEq(p.left, q.left)
        right == PathEq(p.right, q.right)
        is_leaf == Eq(p.is_leaf, q.is_leaf)
    IN IF p = None /\ q = None THEN "eq"
       ELSE IF p = None \/ q = None THEN "ne"
       ELSE IF DOMAIN p # DOMAIN q THEN "ne"
       ELSE IF hash # "eq" THEN hash
       ELSE IF "left" \in DOMAIN p
            THEN IF left # "eq" THEN left
                 ELSE IF right # "eq" THEN right
                 ELSE IF is_leaf # "eq" THEN is_leaf
                 ELSE IF "leaf_position" \in DOMAIN p
                      THEN Eq(p.leaf_position, q.leaf_position)
                      ELSE "eq"
            ELSE IF is_leaf # "eq" THEN is_leaf
                 ELSE NodeEq(p.leaf_position.tree, p.leaf_position.ref,
                             q.leaf_position.tree, q.leaf_position.ref, {})

\* Two chains from link i on: each link's path, then its timestamp.
RECURSIVE LinksEq(_, _, _)
LinksEq(s1, s2, i) ==
    LET reduced == PathEq(s1[i].reduced, s2[i].reduced)
    IN IF i > Len(s1) THEN "eq"
       ELSE IF reduced # "eq" THEN reduced
       ELSE IF s1[i].timestamp # s2[i].timestamp THEN "ne"
       ELSE LinksEq(s1, s2, i + 1)

\* Two different record objects; a record's keys in order: version,
\* digestAlgorithm, cryptoInfos, encryptionInfo, archiveTimeStampSequence.
RecordEq(r1, r2) ==
    IF \/ r1.version # r2.version
       \/ r1.digestAlgorithm # r2.digestAlgorithm
       \/ r1.cryptoInfos # r2.cryptoInfos
       \/ r1.encryptionInfo # r2.encryptionInfo
       \/ Len(r1.archiveTimeStampSequence) # Len(r2.archiveTimeStampSequence)
    THEN "ne"
    ELSE LinksEq(r1.archiveTimeStampSequence, r2.archiveTimeStampSequence, 1)

\* The tuples (record, hash) of entries p and k: the records first, then
\* the hashes.
EntryEq(heap, records_and_hashes, p, k) ==
    LET record == IF records_and_hashes[p].rec = records_and_hashes[k].rec
                  THEN "eq"
                  ELSE RecordEq(heap[records_and_hashes[p].rec],
                                heap[records_and_hashes[k].rec])
    IN IF record # "eq" THEN record
       ELSE Eq(records_and_hashes[p].hash, records_and_hashes[k].hash)

\* list.index from entry p on: the first entry equal to entry k, or the
\* exception a comparison on the way raised.
RECURSIVE IndexFrom(_, _, _, _)
IndexFrom(heap, records_and_hashes, k, p) ==
    LET c == EntryEq(heap, records_and_hashes, p, k)
    IN IF c = "raised" THEN [raised |-> "RecursionError"]
       ELSE IF c = "eq" THEN [index |-> p]
       ELSE IndexFrom(heap, records_and_hashes, k, p + 1)

\* records_and_hashes.index((record, new_document_hash)) for entry k.
IndexOf(heap, records_and_hashes, k) == IndexFrom(heap, records_and_hashes, k, 1)

\* The body of the second loop for batch entry k: the heap it leaves, and
\* the exception if it raised (then the heap is as it found it).
RenewOne(heap, records_and_hashes, new_hashes, new_tree, new_hash_algorithm, k, t) ==
    LET r == records_and_hashes[k].rec
        found == IndexOf(heap, records_and_hashes, k)
        combined_hash == new_hashes[found.index]
        reduced_tree == reduce_tree(new_tree, combined_hash)
        new_timestamp == create_timestamp(new_tree.nodes[new_tree.root].hash,
                                          new_hash_algorithm, t)
        new_chain == [reduced |-> reduced_tree, timestamp |-> new_timestamp]
    IN IF "raised" \in DOMAIN found
       THEN [heap |-> heap, raised |-> found.raised]
       ELSE [heap |-> [heap EXCEPT
                        ![r] = [@ EXCEPT
                                 !.archiveTimeStampSequence = Append(@, new_chain),
                                 !.digestAlgorithm = new_hash_algorithm]]]

\* The second loop from entry k on: the heap it leaves, and if a pass
\* raised the exception and the entries done before it.
RECURSIVE RenewLoop(_, _, _, _, _, _, _)
RenewLoop(heap, records_and_hashes, new_hashes, new_tree, new_hash_algorithm, k, times) ==
    LET one == RenewOne(heap, records_and_hashes, new_hashes, new_tree,
                        new_hash_algorithm, k, times[k])
    IN IF k > Len(records_and_hashes)
       THEN [heap |-> heap]
       ELSE IF "raised" \in DOMAIN one
            THEN [heap |-> one.heap, raised |-> one.raised, done |-> k - 1]
            ELSE RenewLoop(one.heap, records_and_hashes, new_hashes, new_tree,
                           new_hash_algorithm, k + 1, times)

\* The result is [heap, new_tree], or the exception the call ends in, with
\* the heap as the call left it if links were appended before.  id is the
\* identity of the tree object the call builds.
renew_hashtree(heap, records_and_hashes, new_hash_algorithm, times, id) ==
    LET new_hashes == NewHashes(heap, records_and_hashes)
        new_tree == Allocated(create_hashtree(new_hashes), id)
        out == RenewLoop(heap, records_and_hashes, new_hashes, new_tree,
                         new_hash_algorithm, 1, times)
    IN IF ~IsTree(new_tree)
       THEN new_tree
       ELSE IF "raised" \in DOMAIN out
            THEN out
            ELSE [heap |-> out.heap, new_tree |-> new_tree]

(***************************************************************************)
(* Verification                                                            *)
(***************************************************************************)
verify_timestamp(timestamp, reference_time) ==
    timestamp.time < reference_time

\* verify_reduced_tree comparing the digest it computes from the children
\* of the root with the target instead of the root's digest.
verify_reduced_tree_target(reduced_tree, target_hash) ==
    IF reduced_tree = None
    THEN FALSE
    ELSE IF reduced_tree.is_leaf
         THEN reduced_tree.hash = target_hash
         ELSE hash_pair(reduced_tree.left.hash,
                        IF reduced_tree.right # None
                        THEN reduced_tree.right.hash ELSE Absent,
                        FALSE) = target_hash

verify_reduced_tree(reduced_tree, target_hash) ==
    IF reduced_tree = None
    THEN FALSE
    ELSE IF reduced_tree.is_leaf
         THEN reduced_tree.hash = target_hash
         ELSE hash_pair(reduced_tree.left.hash,
                        IF reduced_tree.right # None
                        THEN reduced_tree.right.hash ELSE Absent,
                        FALSE) = reduced_tree.hash

Result(ok, msg) == [ok |-> ok, msg |-> msg]

MsgInvalid == "Invalid evidence record structure"
MsgInitial == "Initial hash verification failed"
MsgAlgorithm(i, previous_algorithm, current_algorithm) ==
    "Inconsistent hash algorithm in chain " \o ToString(i) \o ": expected "
        \o previous_algorithm \o ", got " \o current_algorithm
MsgTimestamp(i) == "Invalid timestamp sequence in chain " \o ToString(i)
MsgLinkage(i) == "Chain linkage verification failed at chain " \o ToString(i)
MsgStale == "Last timestamp is not valid at current time"
MsgSuccess == "Evidence record verification successful"

\* VerifyChains with the timestamp check of a chain made before its
\* algorithm check.
RECURSIVE VerifyChainsTimeFirst(_, _, _, _, _, _)
VerifyChainsTimeFirst(sequence, pairs, i, previous_timestamp, previous_algorithm, current_time) ==
    IF i > Len(sequence)
    THEN IF ~verify_timestamp(previous_timestamp, current_time)
         THEN Result(FALSE, MsgStale)
         ELSE Result(TRUE, MsgSuccess)
    ELSE IF i > Len(pairs)
    THEN [raised |-> "IndexError"]
    ELSE
      LET current_chain == sequence[i]
          current_hash == pairs[i].hash
          current_algorithm == pairs[i].algorithm
          right_leaf == encode_atsc(<<[timestamp |-> previous_timestamp]>>)
          concatenated_hash == hash_pair(current_hash, right_leaf, FALSE)
      IN IF ~verify_timestamp(previous_timestamp,
                      current_chain.timestamp.time + TicksPerSecond)
         THEN Result(FALSE, MsgTimestamp(i))
         ELSE IF current_algorithm = previous_algorithm
         THEN Result(FALSE, MsgAlgorithm(i, previous_algorithm,
                                         current_algorithm))
         ELSE IF ~verify_reduced_tree(current_chain.reduced,
                                      concatenated_hash)
         THEN Result(FALSE, MsgLinkage(i))
         ELSE VerifyChainsTimeFirst(sequence, pairs, i + 1,
                                    current_chain.timestamp,
                                    current_algorithm, current_time)

\* The for loop from chain i on (i counts from 2 as in the source), followed
\* by the check of the last timestamp.  pairs[i] is the source's
\* hash_value_algorithm_pairs[i - 1].
RECURSIVE VerifyChains(_, _, _, _, _, _)
VerifyChains(sequence, pairs, i, previous_timestamp, previous_algorithm, current_time) ==
    IF i > Len(sequence)
    THEN IF ~verify_timestamp(previous_timestamp, current_time)
         THEN Result(FALSE, MsgStale)
         ELSE Result(TRUE, MsgSuccess)
    ELSE IF i > Len(pairs)
    THEN [raised |-> "IndexError"]
    ELSE
      LET current_chain == sequence[i]
          current_hash == pairs[i].hash
          current_algorithm == pairs[i].algorithm
          right_leaf == encode_atsc(<<[timestamp |-> previous_timestamp]>>)
          concatenated_hash == hash_pair(current_hash, right_leaf, FALSE)
      IN IF current_algorithm = previous_algorithm
         THEN Result(FALSE, MsgAlgorithm(i, previous_algorithm,
                                         current_algorithm))
         ELSE IF ~verify_timestamp(previous_timestamp,
                      current_chain.timestamp.time + TicksPerSecond)
         THEN Result(FALSE, MsgTimestamp(i))
         ELSE IF ~verify_reduced_tree(current_chain.reduced,
                                      concatenated_hash)
         THEN Result(FALSE, MsgLinkage(i))
         ELSE VerifyChains(sequence, pairs, i + 1, current_chain.timestamp,
                           current_algorithm, current_time)

\* t is the instant read from time.time().  The result is Result(ok, msg),
\* or the exception the call ends in.
verify_evidence_record(record, hash_value_algorithm_pairs, t) ==
    IF record = None
    THEN Result(FALSE, MsgInvalid)
    ELSE IF Len(record.archiveTimeStampSequence) = 0
    THEN Result(FALSE, MsgInvalid)
    ELSE IF Len(hash_value_algorithm_pairs) = 0
    THEN [raised |-> "IndexError"]
    ELSE
      LET current_time == t + TicksPerSecond
          initial_chain == record.archiveTimeStampSequence[1]
          initial_hash == hash_value_algorithm_pairs[1].hash
          initial_algorithm == hash_value_algorithm_pairs[1].algorithm
      IN IF ~verify_reduced_tree(initial_chain.reduced, initial_hash)
         THEN Result(FALSE, MsgInitial)
         ELSE VerifyChains(record.archiveTimeStampSequence,
                           hash_value_algorithm_pairs, 2,
                           initial_chain.timestamp, initial_algorithm,
                           current_time)

(***************************************************************************)
(* Records handed to the verifier.  The verifier reads a record that was   *)
(* stored outside the library, so the record it is given is a stored       *)
(* record as built, or one with a single field changed in storage.         *)
(***************************************************************************)
\* The places of the nodes of a path: the steps from its root.
RECURSIVE PathAddrs(_)
PathAddrs(path) ==
    IF path = None
    THEN {}
    ELSE {<<>>}
         \cup (IF "left" \in DOMAIN path
               THEN {<<"left">> \o a : a \in PathAddrs(path.left)} ELSE {})
         \cup (IF "right" \in DOMAIN path
               THEN {<<"right">> \o a : a \in PathAddrs(path.right)} ELSE {})

RECURSIVE NodeAt(_, _)
NodeAt(path, addr) ==
    IF addr = <<>> THEN path
    ELSE IF addr[1] = "left" THEN NodeAt(path.left, Tail(addr))
                             ELSE NodeAt(path.right, Tail(addr))

RECURSIVE SetHash(_, _, _)
SetHash(path, addr, v) ==
    IF addr = <<>>
    THEN [path EXCEPT !.hash = v]
    ELSE IF addr[1] = "left"
         THEN [path EXCEPT !.left = SetHash(path.left, Tail(addr), v)]
         ELSE [path EXCEPT !.right = SetHash(path.right, Tail(addr), v)]

Mutation(kind, link, addr, instant) ==
    [kind |-> kind, link |-> link, addr |-> addr, instant |-> instant]

Unchanged == Mutation("none", 0, <<>>, 0)

Mutations(record) ==
    LET seq == record.archiveTimeStampSequence
    IN {Unchanged, Mutation("norecord", 0, <<>>, 0),
        Mutation("emptychain", 0, <<>>, 0)}
       \cup {Mutation("node", j, a, 0) :
                j \in 1..Len(seq), a \in UNION {PathAddrs(seq[i].reduced) :
                                                i \in 1..Len(seq)}}
       \cup {Mutation("nopath", j, <<>>, 0) : j \in 1..Len(seq)}
       \cup {Mutation("tshash", j, <<>>, 0) : j \in 1..Len(seq)}
       \cup {Mutation("time", j, <<>>, t) : j \in 1..Len(seq), t \in 0..(MaxTime + TicksPerSecond)}

MutationApplies(record, m) ==
    LET seq == record.archiveTimeStampSequence
    IN CASE m.kind = "node" -> m.addr \in PathAddrs(seq[m.link].reduced)
         [] m.kind = "nopath" -> seq[m.link].reduced # None
         [] m.kind = "time" -> seq[m.link].timestamp.time # m.instant
         [] OTHER -> TRUE

Mutate(record, m) ==
    CASE m.kind = "none" -> record
      [] m.kind = "norecord" -> None
      [] m.kind = "emptychain" ->
            [record EXCEPT !.archiveTimeStampSequence = <<>>]
      [] m.kind = "node" ->
            [record EXCEPT !.archiveTimeStampSequence[m.link].reduced =
                SetHash(@, m.addr, Forged)]
      [] m.kind = "nopath" ->
            [record EXCEPT !.archiveTimeStampSequence[m.link].reduced = None]
      [] m.kind = "tshash" ->
            [record EXCEPT
                !.archiveTimeStampSequence[m.link].timestamp.hash = Forged]
      [] m.kind = "time" ->
            [record EXCEPT
                !.archiveTimeStampSequence[m.link].timestamp.time = m.instant]

(***************************************************************************)
(* The (digest, algorithm) pairs handed to the verifier: the pairs the     *)
(* caller registered, or those with one digest, one algorithm label or     *)
(* the length changed.                                                     *)
(***************************************************************************)
Pair(h, a) == [hash |-> h, algorithm |-> a]

Variation(kind, at, algorithm) ==
    [kind |-> kind, at |-> at, algorithm |-> algorithm]

TruePairs == Variation("true", 0, "")

Variations(truth) ==
    {TruePairs}
    \cup {Variation("digest", j, "") : j \in 1..Len(truth)}
    \cup {Variation("algorithm", j, a) :
             j \in 1..Len(truth), a \in Algorithms}
    \cup {Variation("length", m, "") : m \in 0..(Len(truth) + 1)}

VariationApplies(truth, v) ==
    CASE v.kind = "algorithm" -> truth[v.at].algorithm # v.algorithm
      [] v.kind = "length" -> v.at # Len(truth)
      [] OTHER -> TRUE

Vary(truth, v) ==
    CASE v.kind = "true" -> truth
      [] v.kind = "digest" -> [truth EXCEPT ![v.at].hash = Forged]
      [] v.kind = "algorithm" -> [truth EXCEPT ![v.at].algorithm = v.algorithm]
      [] v.kind = "length" ->
            IF v.at <= Len(truth)
            THEN SubSeq(truth, 1, v.at)
            ELSE Append(truth, truth[Len(truth)])

(***************************************************************************)
(* The driver's check of a record it has just created, ervis.py line 52:   *)
(* verify_evidence_record(record, [hash_value, "SHA256"]).  The list is    *)
(* flat, so the verifier's hash_value_algorithm_pairs[0] is the digest     *)
(* string itself and "initial_hash, initial_algorithm = ..." unpacks the   *)
(* string into its characters: a digest of two characters gives the pair   *)
(* (first character, second character), any other length a ValueError.     *)
(* The verifier has read the clock before.  The record has one link, so no *)
(* other item of the list is read.                                         *)
(***************************************************************************)
\* The characters of the digests.
Characters == {"h", "H", "a", "b", "1", "2", "3", "+"}

UnpackedDigest(hash_value) ==
    IF Len(hash_value) # 2
    THEN [raised |-> "ValueError"]
    ELSE LET cs == CHOOSE cs \in Characters \X Characters :
                      cs[1] \o cs[2] = hash_value
         IN Pair(cs[1], cs[2])

\* The result of the call at instant t: Result(ok, msg), which the driver
\* prints, or the exception.
CheckCreated(record, hash_value, t) ==
    LET first == UnpackedDigest(hash_value)
    IN IF "raised" \in DOMAIN first
       THEN first
       ELSE verify_evidence_record(record, <<first>>, t)

(***************************************************************************)
(* State.                                                                  *)
(*   tree     the result of the driver's create_hashtree call (None before)*)
(*   reduced  the last reduce_tree call: its target and its result         *)
(*   records  the record objects the driver holds, in creation order       *)
(*   docs     for each record the (digest, algorithm) pairs the driver     *)
(*            registered for it, one per link                              *)
(*   new_tree the tree returned by the last renew_hashtree call, or the     *)
(*            exception it raised                                          *)
(*   now      the last instant read from time.time()                       *)
(*   verdict  the pending verify_evidence_record call and its result       *)
(*   initial_hashes  the list handed to the driver's create_hashtree call  *)
(*   last_batch      the records_and_hashes list and the algorithm of the  *)
(*                   last renew_hashtree call                              *)
(*   passes   the renew_hashtree calls that run step by step: for each     *)
(*            its position and its local variables                         *)
(***************************************************************************)
VARIABLES tree, reduced, records, docs, new_tree, now, verdict,
          initial_hashes, last_batch, passes

vars == <<tree, reduced, records, docs, new_tree, now, verdict,
          initial_hashes, last_batch, passes>>

\* The renew_hashtree calls that can run at the same time, and a call that
\* has not started: no batch, no local variable set.
PassIds == {"A", "B"}

IdlePass ==
    [pc |-> "idle", records_and_hashes |-> <<>>, new_hash_algorithm |-> "",
     new_hashes |-> <<>>, new_tree |-> None, k |-> 0]

SeqsUpTo(S, lo, hi) == UNION {[1..k -> S] : k \in lo..hi}

\* time.time() does not run backwards: a read returns the last instant or a
\* later one (the model's clock stops at MaxTime).
ClockReads(last) == {t \in last..(last + 1) : t <= MaxTime}

\* The instants of n successive reads.
ClockReadSeqs(last, n) ==
    {ts \in [1..n -> last..MaxTime] :
        \A k \in 1..n : ts[k] \in ClockReads(IF k = 1 THEN last ELSE ts[k - 1])}

\* The identity of the next tree object.  Identities are given in the
\* order of creation and the tree created last is still held, so one more
\* than the identities of the trees held is the identity of no tree.
TreeIds ==
    {t.id : t \in {x \in {tree, new_tree} \cup {passes[p].new_tree : p \in PassIds} : IsTree(x)}}

FreshId == 1 + (CHOOSE i \in TreeIds \cup {0} : \A j \in TreeIds : j <= i)

\* A renew_hashtree call has raised: the driver has ended with it.
Ended == "raised" \in DOMAIN new_tree

Init ==
    /\ tree = None
    /\ reduced = None
    /\ records = <<>>
    /\ docs = <<>>
    /\ new_tree = None
    /\ now = 0
    /\ verdict = None
    /\ initial_hashes = None
    /\ last_batch = None
    /\ passes = [p \in PassIds |-> IdlePass]

\* ervis.py: tree = create_hashtree(initial_hashes)
CreateHashtree(hash_values) ==
    /\ tree = None
    /\ verdict = None
    /\ tree' = Allocated(create_hashtree(hash_values), FreshId)
    /\ initial_hashes' = hash_values
    /\ UNCHANGED <<reduced, records, docs, new_tree, now, verdict,
                   last_batch, passes>>

\* reduced_tree = reduce_tree(tree, target_hash), the call on its own.
ReduceTree(target_hash) ==
    /\ verdict = None
    /\ IsTree(tree)
    /\ reduced' = [target_hash |-> target_hash,
                   reduced_tree |-> reduce_tree(tree, target_hash)]
    /\ tree' = TreeReduced(tree, target_hash)
    /\ UNCHANGED <<records, docs, new_tree, now, verdict,
                   initial_hashes, last_batch, passes>>

\* ervis.py, one pass of the creation loop: reduce the tree for one hash
\* value, create its record at instant t, have the record checked at
\* instant t2 (the result is printed) and keep the record.  A pass in which
\* a call raises ends the driver with no record kept.  The tree is left as
\* the reduce_tree call left its node dicts.
CreateRecord(hash_value, hash_algorithm, t, t2) ==
    /\ verdict = None
    /\ ~Ended
    /\ IsTree(tree)
    /\ Len(records) < MaxRecords
    /\ LET reduced_tree == reduce_tree(tree, hash_value)
           record == create_evidence_record(tree, reduced_tree,
                                            hash_algorithm, t)
       IN /\ "raised" \notin DOMAIN reduced_tree
          /\ "raised" \notin DOMAIN CheckCreated(record, hash_value, t2)
          /\ reduced' = [target_hash |-> hash_value,
                         reduced_tree |-> reduced_tree]
          /\ records' = Append(records, record)
    /\ tree' = TreeReduced(tree, hash_value)
    /\ docs' = Append(docs, <<Pair(hash_value, hash_algorithm)>>)
    /\ now' = t2
    /\ UNCHANGED <<new_tree, verdict, initial_hashes, last_batch, passes>>

\* The links that renewals have appended to the records of the heap.
RECURSIVE RenewedLinks(_)
RenewedLinks(heap) ==
    IF heap = <<>>
    THEN 0
    ELSE Len(heap[1].archiveTimeStampSequence) - 1 + RenewedLinks(Tail(heap))

RECURSIVE Registered(_, _, _, _)
Registered(d, records_and_hashes, new_hash_algorithm, k) ==
    IF k > Len(records_and_hashes)
    THEN d
    ELSE Registered(
            [d EXCEPT ![records_and_hashes[k].rec] =
                Append(@, Pair(records_and_hashes[k].hash, new_hash_algorithm))],
            records_and_hashes, new_hash_algorithm, k + 1)

\* ervis.py: renewed_records, new_tree = renew_hashtree(records_and_hashes, alg)
\* If the call raises, the records are left with the links it had appended
\* and the driver ends.
RenewWithin(cap, records_and_hashes, new_hash_algorithm, times) ==
    /\ verdict = None
    /\ ~Ended
    /\ RenewedLinks(records) + Len(records_and_hashes) <= cap
    /\ \E out \in {renew_hashtree(records, records_and_hashes,
                                  new_hash_algorithm, times, FreshId)} :
          IF "raised" \in DOMAIN out
          THEN /\ records' = out.heap
               /\ new_tree' = [raised |-> out.raised]
               /\ docs' = Registered(docs,
                                     SubSeq(records_and_hashes, 1, out.done),
                                     new_hash_algorithm, 1)
               /\ now' = IF out.done = 0 THEN now ELSE times[out.done]
               /\ UNCHANGED last_batch
          ELSE /\ records' = out.heap
               /\ new_tree' = out.new_tree
               /\ docs' = Registered(docs, records_and_hashes,
                                     new_hash_algorithm, 1)
               /\ now' = times[Len(times)]
               /\ last_batch' =
                     [records_and_hashes |-> records_and_hashes,
                      new_hash_algorithm |-> new_hash_algorithm]
    /\ UNCHANGED <<tree, reduced, verdict, initial_hashes, passes>>

\* The renewal call while the records hold fewer than MaxRenewed renewal
\* links.
Renew(records_and_hashes, new_hash_algorithm, times) ==
    RenewWithin(MaxRenewed, records_and_hashes, new_hash_algorithm, times)

\* A call of verify_evidence_record on record r as stored (m) with the
\* pairs the caller supplies (v).
Verify(r, m, v, t) ==
    /\ verdict = None
    /\ ~Ended
    /\ MutationApplies(records[r], m)
    /\ VariationApplies(docs[r], v)
    /\ m = Unchanged \/ v = TruePairs
    /\ LET record == Mutate(records[r], m)
           pairs == Vary(docs[r], v)
       IN verdict' = [rec |-> r, mutation |-> m, variation |-> v,
                      record |-> record, pairs |-> pairs,
                      result |-> verify_evidence_record(record, pairs, t)]
    /\ now' = t
    /\ UNCHANGED <<tree, reduced, records, docs, new_tree,
                   initial_hashes, last_batch, passes>>

\* The call returns to the driver; a call that raised does not.
Return ==
    /\ verdict # None
    /\ "raised" \notin DOMAIN verdict.result
    /\ verdict' = None
    /\ UNCHANGED <<tree, reduced, records, docs, new_tree, now,
                   initial_hashes, last_batch, passes>>

Batches ==
    SeqsUpTo([rec : 1..Len(records), hash : NewDigests], 1,
             MaxRenewed - RenewedLinks(records))

NodeHashes(t) == {t.nodes[i].hash : i \in 1..Len(t.nodes)}

(***************************************************************************)
(* renew_hashtree step by step, for calls that run at the same time.  A    *)
(* call's arguments and its locals new_hashes, new_tree and the loop index *)
(* k are its own; the record objects are the shared heap.  The steps are   *)
(* one pass of the first loop, the tree build, and one pass of the second  *)
(* loop.                                                                   *)
(***************************************************************************)
BatchRecords(b) == {b[k].rec : k \in 1..Len(b)}

\* new_hashes read as if it were kept on the shared EvidenceRecord object:
\* the lists of all calls in one.
SharedHashes(ps, p) == ps["A"].new_hashes \o ps["B"].new_hashes

\* new_hashes is a local variable of the call.
PassHashes(ps, p) == ps[p].new_hashes

\* The call is entered with its arguments bound and new_hashes empty.
StartPass(p, b, new_hash_algorithm) ==
    /\ verdict = None
    /\ passes[p].pc = "idle"
    /\ \A q \in PassIds \ {p} :
          /\ BatchRecords(passes[q].records_and_hashes)
                \cap BatchRecords(b) = {}
          /\ Len(passes[q].records_and_hashes) + Len(b) <= MaxRenewed
    /\ passes' = [passes EXCEPT ![p] =
                    [pc |-> "leaves", records_and_hashes |-> b,
                     new_hash_algorithm |-> new_hash_algorithm,
                     new_hashes |-> <<>>, new_tree |-> None, k |-> 1]]
    /\ UNCHANGED <<tree, reduced, records, docs, new_tree, now, verdict,
                   initial_hashes, last_batch>>

\* One pass of the first loop: the combined hash of entry k.
LeafStep(p) ==
    LET c == passes[p]
    IN /\ c.pc = "leaves"
       /\ c.k <= Len(c.records_and_hashes)
       /\ passes' = [passes EXCEPT
             ![p].new_hashes =
                 Append(@, NewHashes(records, c.records_and_hashes)[c.k]),
             ![p].k = @ + 1]
       /\ UNCHANGED <<tree, reduced, records, docs, new_tree, now, verdict,
                      initial_hashes, last_batch>>

\* new_tree = self.create_hashtree(new_hashes)
TreeStep(p) ==
    LET c == passes[p]
    IN /\ c.pc = "leaves"
       /\ c.k > Len(c.records_and_hashes)
       /\ passes' = [passes EXCEPT
             ![p].new_tree =
                 Allocated(create_hashtree(PassHashes(passes, p)), FreshId),
             ![p].pc = "append",
             ![p].k = 1]
       /\ UNCHANGED <<tree, reduced, records, docs, new_tree, now, verdict,
                      initial_hashes, last_batch>>

\* One pass of the second loop: entry k's link is appended; after the last
\* entry the call returns.  A pass that raises ends the call.
AppendStep(p, t) ==
    LET c == passes[p]
        b == c.records_and_hashes
        one == RenewOne(records, b, PassHashes(passes, p), c.new_tree,
                        c.new_hash_algorithm, c.k, t)
    IN /\ c.pc = "append"
       /\ c.k <= Len(b)
       /\ IF "raised" \in DOMAIN one
          THEN /\ passes' = [passes EXCEPT ![p].pc = "raised"]
               /\ UNCHANGED <<records, docs, now>>
          ELSE /\ records' = one.heap
               /\ docs' = [docs EXCEPT ![b[c.k].rec] =
                              Append(@, Pair(b[c.k].hash, c.new_hash_algorithm))]
               /\ passes' = [passes EXCEPT
                     ![p].k = @ + 1,
                     ![p].pc = IF c.k = Len(b) THEN "done" ELSE "append"]
               /\ now' = t
       /\ UNCHANGED <<tree, reduced, new_tree, verdict, initial_hashes,
                      last_batch>>

\* The batches a call can be given: entries over the records held.
PassBatches ==
    SeqsUpTo([rec : 1..Len(records), hash : NewDigests], 1, MaxRenewed)

(***************************************************************************)
(* Spec: the driver.  It builds the initial tree, creates records under    *)
(* DriverAlgorithm, renews them in batches and has stored records          *)
(* verified.                                                               *)
(***************************************************************************)
Next ==
    \/ \E hs \in SeqsUpTo(Digests, 0, MaxInitial) : CreateHashtree(hs)
    \/ \E h \in Digests, t \in ClockReads(now) :
          \E t2 \in ClockReads(t) : CreateRecord(h, DriverAlgorithm, t, t2)
    \/ \E b \in Batches, a \in Algorithms :
          \E ts \in ClockReadSeqs(now, Len(b)) : Renew(b, a, ts)
    \/ \E r \in 1..Len(records) :
          \E m \in Mutations(records[r]), v \in Variations(docs[r]),
             t \in ClockReads(now) : Verify(r, m, v, t)
    \/ Return

Spec == Init /\ [][Next]_vars

(***************************************************************************)
(* SpecTree: create_hashtree and reduce_tree on their own, over every      *)
(* leaf sequence of up to MaxLeaves digests and every target.              *)
(***************************************************************************)
NextTree ==
    \/ \E hs \in SeqsUpTo(TreeDigests, 0, MaxLeaves) : CreateHashtree(hs)
    \/ \E h \in TreeDigests \cup {Forged} \cup
                (IF IsTree(tree) THEN NodeHashes(tree) ELSE {}) :
          ReduceTree(h)

SpecTree == Init /\ [][NextTree]_vars

(***************************************************************************)
(* SpecFresh: records are created, under any algorithm, and verified as    *)
(* stored; none is renewed or changed.                                     *)
(***************************************************************************)
NextFresh ==
    \/ \E hs \in SeqsUpTo(Digests, 0, MaxInitial) : CreateHashtree(hs)
    \/ \E h \in Digests, a \in Algorithms, t \in ClockReads(now) :
          \E t2 \in ClockReads(t) : CreateRecord(h, a, t, t2)
    \/ \E r \in 1..Len(records) :
          \E v \in Variations(docs[r]), t \in ClockReads(now) :
             Verify(r, Unchanged, v, t)
    \/ Return

SpecFresh == Init /\ [][NextFresh]_vars

(***************************************************************************)
(* SpecRenew: records are created and renewed, none is verified; every     *)
(* read of the clock returns the same instant.                             *)
(***************************************************************************)
NextRenew ==
    \/ \E hs \in SeqsUpTo(Digests, 0, MaxInitial) : CreateHashtree(hs)
    \/ \E h \in Digests : CreateRecord(h, DriverAlgorithm, now, now)
    \/ \E b \in Batches, a \in Algorithms :
          Renew(b, a, [k \in 1..Len(b) |-> now])

SpecRenew == Init /\ [][NextRenew]_vars

(***************************************************************************)
(* SpecVerify: the life of one record.  It is created, renewed in passes   *)
(* of its own and handed to the verifier as stored, or with one field      *)
(* changed in storage, or with changed pairs.  Every read of the clock     *)
(* returns the same instant; the instants stored in the record's           *)
(* timestamps are among the fields changed.                                *)
(***************************************************************************)
NextVerify ==
    \/ \E hs \in SeqsUpTo(Digests, 0, MaxInitial) : CreateHashtree(hs)
    \/ /\ records = <<>>
       /\ \E h \in Digests : CreateRecord(h, DriverAlgorithm, now, now)
    \/ \E b \in Batches, a \in Algorithms :
          Renew(b, a, [k \in 1..Len(b) |-> now])
    \/ \E r \in 1..Len(records) :
          \E m \in Mutations(records[r]), v \in Variations(docs[r]) :
             Verify(r, m, v, now)
    \/ Return

SpecVerify == Init /\ [][NextVerify]_vars

(***************************************************************************)
(* SpecBatches: records are created; then renew_hashtree calls over        *)
(* disjoint sets of records run with their steps interleaved in any        *)
(* order; every read of the clock returns the same instant.  "A" names    *)
(* the call that is entered first.                                         *)
(***************************************************************************)
NextBatches ==
    \/ \E hs \in SeqsUpTo(Digests, 0, MaxInitial) : CreateHashtree(hs)
    \/ /\ \A p \in PassIds : passes[p].pc = "idle"
       /\ \E h \in Digests : CreateRecord(h, DriverAlgorithm, now, now)
    \/ \E b \in PassBatches, a \in Algorithms : StartPass("A", b, a)
    \/ /\ passes["A"].pc # "idle"
       /\ \E b \in PassBatches, a \in Algorithms : StartPass("B", b, a)
    \/ \E p \in PassIds : LeafStep(p)
    \/ \E p \in PassIds : TreeStep(p)
    \/ \E p \in PassIds : AppendStep(p, now)

SpecBatches == Init /\ [][NextBatches]_vars

(***************************************************************************)
(* Properties.                                                             *)
(***************************************************************************)
LeafHashes(t) == {t.nodes[i].hash : i \in 1..Len(t.levels[1])}

\* A live node of a path has children fields; a stub and None have not.
IsLive(n) == "left" \in DOMAIN n

\* The digest obtained for a live node by pairing bottom-up from the live
\* leaf: a stub contributes the digest it stores.
RECURSIVE Recomputed(_)
Recomputed(p) ==
    LET digest(c) == IF IsLive(c) THEN Recomputed(c) ELSE c.hash
    IN IF p.left = None /\ p.right = None
       THEN p.hash
       ELSE hash_pair(digest(p.left),
                      IF p.right = None THEN Absent ELSE digest(p.right),
                      FALSE)

RECURSIVE LiveNodes(_)
LiveNodes(p) ==
    IF ~IsLive(p) THEN {}
    ELSE {p} \cup LiveNodes(p.left) \cup LiveNodes(p.right)

RECURSIVE LiveLeafOf(_)
LiveLeafOf(p) ==
    IF IsLive(p.left) THEN LiveLeafOf(p.left)
    ELSE IF IsLive(p.right) THEN LiveLeafOf(p.right)
    ELSE p

Verified(res) == "ok" \in DOMAIN res /\ res.ok

Chain(r) == records[r].archiveTimeStampSequence

LinkageReason(msg) ==
    \/ msg = MsgInitial
    \/ \E i \in 2..(MaxRenewed + 1) : msg = MsgLinkage(i)

\* The stored record verifies with the pairs registered for it.
VerifiesAsStored(r) ==
    Verified(verify_evidence_record(records[r], docs[r], now))

\* C1: whenever a record that verifies with its true inputs has the digest
\* of one node of one link's path changed, verification with the true
\* inputs fails with a linkage-mismatch reason.
C1_TamperDetected ==
    (/\ verdict # None
     /\ verdict.mutation.kind = "node"
     /\ verdict.variation = TruePairs
     /\ VerifiesAsStored(verdict.rec))
    => /\ "ok" \in DOMAIN verdict.result
       /\ ~verdict.result.ok
       /\ LinkageReason(verdict.result.msg)

\* C2: whenever an unchanged record that verifies with its true inputs is
\* verified with the claimed digest of link i replaced by another digest,
\* verification fails with the linkage-mismatch reason of link i.
C2_ClaimedDigestChecked ==
    (/\ verdict # None
     /\ verdict.mutation = Unchanged
     /\ verdict.variation.kind = "digest"
     /\ VerifiesAsStored(verdict.rec))
    => verdict.result =
          Result(FALSE, IF verdict.variation.at = 1
                        THEN MsgInitial
                        ELSE MsgLinkage(verdict.variation.at))

\* C3: the path reduce_tree returns for a leaf digest of the tree starts at
\* a live leaf with that digest, recomputes at every live node the digest
\* stored there and ends at the root digest of the tree.
C3_PathRoundTrip ==
    (/\ reduced # None
     /\ IsTree(tree)
     /\ reduced.target_hash \in LeafHashes(tree))
    => LET p == reduced.reduced_tree
       IN /\ IsLive(p)
          /\ LiveLeafOf(p).is_leaf
          /\ LiveLeafOf(p).hash = reduced.target_hash
          /\ \A n \in LiveNodes(p) : Recomputed(n) = n.hash
          /\ Recomputed(p) = tree.nodes[tree.root].hash

\* A path of depth two whose live branch is the right child of the root.
C3_Witness ==
    /\ reduced # None
    /\ IsTree(tree)
    /\ reduced.target_hash \in LeafHashes(tree)
    /\ IsLive(reduced.reduced_tree)
    /\ ~reduced.reduced_tree.is_leaf
    /\ IsLive(reduced.reduced_tree.right)
    /\ ~reduced.reduced_tree.right.is_leaf
    /\ Recomputed(reduced.reduced_tree) = tree.nodes[tree.root].hash

\* C4: a renewal pass leaves every record it changes with its previous
\* chain sequence plus exactly one appended link.
C4_AppendOnly ==
    [][\A r \in 1..Len(records) :
          records'[r] # records[r]
          => /\ Len(records'[r].archiveTimeStampSequence) = Len(Chain(r)) + 1
             /\ SubSeq(records'[r].archiveTimeStampSequence, 1, Len(Chain(r)))
                   = Chain(r)]_vars

\* C5: an unchanged record renewed at least once, each link under an
\* algorithm different from the previous link's, passes verification with
\* the true pairs.
C5_RenewedRecordsVerify ==
    (/\ verdict # None
     /\ verdict.mutation = Unchanged
     /\ verdict.variation = TruePairs
     /\ Len(Chain(verdict.rec)) >= 2
     /\ Chain(verdict.rec)[1].reduced # None
     /\ \A i \in 2..Len(Chain(verdict.rec)) :
           docs[verdict.rec][i].algorithm # docs[verdict.rec][i - 1].algorithm)
    => verdict.result = Result(TRUE, MsgSuccess)

\* The first pair of adjacent links of record r timestamped under the same
\* algorithm, 0 if there is none.
FirstReuse(r) ==
    LET hits == {i \in 2..Len(Chain(r)) :
                    Chain(r)[i].timestamp.algorithm
                       = Chain(r)[i - 1].timestamp.algorithm}
    IN IF hits = {} THEN 0 ELSE CHOOSE i \in hits : \A k \in hits : i <= k

\* C6: an unchanged record with two adjacent links under the same algorithm
\* fails verification with the algorithm-reuse reason, whatever algorithm
\* labels the caller supplies with the true digests.
C6_AlgorithmReuseRejected ==
    (/\ verdict # None
     /\ verdict.mutation = Unchanged
     /\ verdict.variation.kind \in {"true", "algorithm"}
     /\ FirstReuse(verdict.rec) # 0)
    => /\ "ok" \in DOMAIN verdict.result
       /\ ~verdict.result.ok
       /\ \E i \in 2..Len(Chain(verdict.rec)), a, b \in Algorithms :
             verdict.result.msg = MsgAlgorithm(i, a, b)

\* The checks before the timestamp step of link i succeed: those of links
\* 1..i-1 and the algorithm check of link i.
ReachesTimestampStep(record, pairs, i) ==
    /\ Len(pairs) >= i
    /\ LET before == verify_evidence_record(
                        [record EXCEPT !.archiveTimeStampSequence =
                            SubSeq(@, 1, i - 1)], pairs, now)
       IN before.msg \in {MsgSuccess, MsgStale}
    /\ pairs[i].algorithm # pairs[i - 1].algorithm

\* C7: at every link i >= 2 whose timestamp step is reached, verification
\* fails with the timestamp-order reason of link i exactly when link i-1's
\* instant is later than link i's.
C7_TimestampOrder ==
    (verdict # None /\ verdict.record # None)
    => \A i \in 2..Len(verdict.record.archiveTimeStampSequence) :
          ReachesTimestampStep(verdict.record, verdict.pairs, i)
          => (verdict.result = Result(FALSE, MsgTimestamp(i))
              <=> verdict.record.archiveTimeStampSequence[i - 1].timestamp.time
                    > verdict.record.archiveTimeStampSequence[i].timestamp.time)

\* C8: every call of verify_evidence_record returns a (pass/fail, reason)
\* value.
C8_VerificationTotal ==
    verdict # None => "ok" \in DOMAIN verdict.result

\* C9: a record created for a leaf of the tree and not changed passes
\* verification with its true (digest, algorithm) pair.
C9_FreshRecordsVerify ==
    (/\ verdict # None
     /\ verdict.mutation = Unchanged
     /\ verdict.variation = TruePairs
     /\ Len(Chain(verdict.rec)) = 1
     /\ docs[verdict.rec][1].hash \in LeafHashes(tree))
    => verdict.result = Result(TRUE, MsgSuccess)

\* A fresh record for the last of three leaves has passed verification.
C9_Witness ==
    /\ verdict # None
    /\ verdict.mutation = Unchanged
    /\ verdict.variation = TruePairs
    /\ Len(tree.levels[1]) = 3
    /\ docs[verdict.rec][1].hash \in LeafHashes(tree)
    /\ IsLive(Chain(verdict.rec)[1].reduced.right)
    /\ verdict.result = Result(TRUE, MsgSuccess)

\* C10: in every record, the root digest of every link's path is the digest
\* its timestamp certifies (the first link of a record created for a
\* digest that is no node of the tree has no path).
C10_TimestampBinding ==
    \A r \in 1..Len(records) :
       \A j \in 1..Len(Chain(r)) :
          (j > 1 \/ Chain(r)[j].reduced # None)
          => /\ Chain(r)[j].reduced # None
             /\ Chain(r)[j].reduced.hash = Chain(r)[j].timestamp.hash
             /\ Recomputed(Chain(r)[j].reduced) = Chain(r)[j].timestamp.hash

\* Two records created from a tree of several leaves and renewed together
\* in one batch.
C10_Witness ==
    \E r1, r2 \in 1..Len(records) :
       /\ r1 # r2
       /\ Len(Chain(r1)) = 2 /\ Len(Chain(r2)) = 2
       /\ Chain(r1)[1].reduced # None
       /\ ~Chain(r1)[1].reduced.is_leaf
       /\ ~Chain(r1)[2].reduced.is_leaf
       /\ Chain(r1)[2].timestamp.hash = Chain(r2)[2].timestamp.hash
       /\ Chain(r1)[2].reduced.hash = Chain(r1)[2].timestamp.hash
       /\ Chain(r2)[2].reduced.hash = Chain(r2)[2].timestamp.hash

\* The batch of the last renew_hashtree call, and the link that call
\* appended for entry k: later entries naming the same record put their
\* links after it.
LastBatch == last_batch.records_and_hashes

AppendedLink(k) ==
    LET r == LastBatch[k].rec
        later == Cardinality({j \in (k + 1)..Len(LastBatch) :
                                 LastBatch[j].rec = r})
    IN Chain(r)[Len(Chain(r)) - later]

\* C11: the links appended by one renewal pass all carry one and the same
\* timestamp: same digest, same instant, same algorithm.
C11_OneTimestampPerBatch ==
    last_batch # None
    => \A j, k \in 1..Len(LastBatch) :
          AppendedLink(j).timestamp = AppendedLink(k).timestamp

\* The records as they were before any renewal: each with its first link
\* only, under that link's algorithm.
Fresh(heap) ==
    [r \in 1..Len(heap) |->
        [heap[r] EXCEPT
            !.archiveTimeStampSequence = <<@[1]>>,
            !.digestAlgorithm =
                heap[r].archiveTimeStampSequence[1].timestamp.algorithm]]

\* The heap after pass p has run from start to end on heap, on its own.
Alone(heap, p) ==
    LET c == passes[p]
    IN renew_hashtree(heap, c.records_and_hashes, c.new_hash_algorithm,
                      [k \in 1..Len(c.records_and_hashes) |-> now],
                      c.new_tree.id).heap

\* C12: renewal passes over disjoint sets of records whose steps interleave
\* leave every record as running the passes one after the other does, in
\* either order; a finished pass has left its records as it would have
\* running alone.
C12_BatchesIndependent ==
    /\ \A p \in PassIds :
          passes[p].pc = "done"
          => \A r \in BatchRecords(passes[p].records_and_hashes) :
                records[r] = Alone(Fresh(records), p)[r]
    /\ (passes["A"].pc = "done" /\ passes["B"].pc = "done")
       => LET ab == Alone(Alone(Fresh(records), "A"), "B")
              ba == Alone(Alone(Fresh(records), "B"), "A")
          IN /\ Len(ab) = Len(records) /\ Len(ba) = Len(records)
             /\ \A r \in 1..Len(records) :
                   records[r] = ab[r] /\ records[r] = ba[r]

C12_Witness ==
    /\ passes["A"].pc = "done" /\ passes["B"].pc = "done"
    /\ \E r1 \in BatchRecords(passes["A"].records_and_hashes),
          r2 \in BatchRecords(passes["B"].records_and_hashes) :
          /\ r1 # r2
          /\ Len(Chain(r1)) = 2 /\ Len(Chain(r2)) = 2
          /\ records[r1] # Fresh(records)[r1]
          /\ records[r2] # Fresh(records)[r2]

\* The driver's create_hashtree call, with the list initial_hashes, has
\* ended: tree holds what it returned or raised.
Built == tree # None

\* C13: create_hashtree called with an empty list ends in a failure and
\* returns no tree; no tree without leaves or with an absent root is ever
\* handed to the caller.
C13_EmptyRejected ==
    /\ (Built /\ Len(initial_hashes) = 0)
       => (~IsTree(tree) /\ "raised" \in DOMAIN tree)
    /\ IsTree(tree) => (tree.root # 0 /\ Len(tree.levels[1]) > 0)

C13_Witness ==
    /\ Built
    /\ Len(initial_hashes) = 0
    /\ tree = [raised |-> "IndexError"]

\* C14: reduce_tree called with a digest that no node of the tree carries
\* returns None, the not-found result, and no path; no call changes the
\* tree.
C14_NotFound ==
    /\ []((/\ reduced # None
           /\ IsTree(tree)
           /\ reduced.target_hash \notin NodeHashes(tree))
          => reduced.reduced_tree = None)
    /\ [][Built => tree' = tree]_vars

C14_Witness ==
    /\ reduced # None
    /\ IsTree(tree)
    /\ Len(tree.nodes) > 1
    /\ reduced.target_hash \notin NodeHashes(tree)
    /\ reduced.reduced_tree = None

\* A sibling that holds a digest and a leaf flag and nothing else.
IsBareStub(n) == DOMAIN n = {"hash", "is_leaf"}

\* Every node of the path above the live leaf has one live child, and its
\* other child is absent or a bare stub.
RECURSIVE ShapeOk(_)
ShapeOk(p) ==
    IF p.left = None /\ p.right = None
    THEN TRUE
    ELSE \/ /\ IsLive(p.left)
            /\ p.right = None \/ IsBareStub(p.right)
            /\ ShapeOk(p.left)
         \/ /\ IsLive(p.right)
            /\ p.left = None \/ IsBareStub(p.left)
            /\ ShapeOk(p.right)

\* C15: in every path reduce_tree returns, each node above the live leaf
\* has exactly one live child and its other child, when present, is a stub
\* holding only a digest and a leaf flag, with no reference into the tree.
C15_PathShape ==
    (/\ reduced # None
     /\ IsTree(tree)
     /\ IsLive(reduced.reduced_tree))
    => ShapeOk(reduced.reduced_tree)

\* A reduce_tree call for target_hash on the tree as it is now, and a
\* second call for the same target that follows it, run on the objects.
FirstCall(target_hash) ==
    reduce_tree_objects(tree.nodes, Len(tree.nodes), target_hash)

SecondCall(target_hash) ==
    reduce_tree_objects(FirstCall(target_hash).objs, Len(tree.nodes),
                        target_hash)

\* C16: two reduce_tree calls on the same tree with the same target yield
\* structurally identical paths, built of different dicts, and neither
\* call changes the tree: on the tree as the driver holds it, a call and
\* the call after it leave every node dict as it was and return equal
\* structures; the records created for equal digests carry equal paths,
\* which are also the path a further call returns; and no step of the
\* driver changes the tree (nodes, levels, root, parent references) once
\* it is built.
C16_ReduceIdempotent ==
    /\ [](IsTree(tree)
          => \A d \in Digests :
                LET first == FirstCall(d)
                    second == SecondCall(d)
                IN /\ TreeAfter(tree, first.objs) = tree
                   /\ TreeAfter(tree, second.objs) = tree
                   /\ Returned(tree, second) = Returned(tree, first)
                   /\ first.ref # 0 => second.ref # first.ref
                   /\ \A r \in 1..Len(records) :
                         docs[r][1].hash = d
                         => Chain(r)[1].reduced = Returned(tree, second))
    /\ [](\A r1, r2 \in 1..Len(records) :
             docs[r1][1].hash = docs[r2][1].hash
             => /\ Chain(r1)[1].reduced = Chain(r2)[1].reduced
                /\ reduced.target_hash = docs[r1][1].hash
                   => reduced.reduced_tree = Chain(r1)[1].reduced)
    /\ [][Built => (tree' = tree /\ initial_hashes' = initial_hashes)]_vars

C16_Witness ==
    \E r1, r2 \in 1..Len(records) :
       /\ r1 # r2
       /\ docs[r1][1].hash = docs[r2][1].hash
       /\ IsLive(Chain(r1)[1].reduced)
       /\ ~Chain(r1)[1].reduced.is_leaf
       /\ Chain(r1)[1].reduced = Chain(r2)[1].reduced
       /\ Len(SecondCall(docs[r1][1].hash).objs)
             > Len(FirstCall(docs[r1][1].hash).objs)
       /\ Len(FirstCall(docs[r1][1].hash).objs) > Len(tree.nodes) + 1

\* The linkage digest the verifier recomputes for link i of record r from
\* the registered digest and the previous link's timestamp.
LinkageDigest(r, i) ==
    hash_pair(docs[r][i].hash,
              encode_atsc(<<[timestamp |-> Chain(r)[i - 1].timestamp]>>),
              FALSE)

\* C17: for every renewal link of every record, the leaf the renewal
\* inserted for the record equals the linkage digest the verifier
\* recomputes for that link from the true digest.
C17_LinkageLeafAgrees ==
    \A r \in 1..Len(records) :
       \A i \in 2..Len(Chain(r)) :
          /\ IsLive(Chain(r)[i].reduced)
          /\ LiveLeafOf(Chain(r)[i].reduced).hash = LinkageDigest(r, i)

\* The checks of the verifier after the structure check, in the order
\* initial, then for each chain i = 2..n algorithm, timestamp, linkage,
\* then freshness: for each its outcome on its own and the reason it
\* reports.  The call is on a record with n >= 1 links, with a pair for
\* every link, at instant t.
CheckCount(record) == 3 * (Len(record.archiveTimeStampSequence) - 1) + 2

CheckAt(record, pairs, t, j) ==
    LET seq == record.archiveTimeStampSequence
        i == ((j - 2) \div 3) + 2
        step == (j - 2) % 3
    IN IF j = 1
       THEN Result(verify_reduced_tree(seq[1].reduced, pairs[1].hash),
                   MsgInitial)
       ELSE IF j = CheckCount(record)
       THEN Result(verify_timestamp(seq[Len(seq)].timestamp,
                                    t + TicksPerSecond), MsgStale)
       ELSE IF step = 0
       THEN Result(pairs[i].algorithm # pairs[i - 1].algorithm,
                   MsgAlgorithm(i, pairs[i - 1].algorithm,
                                pairs[i].algorithm))
       ELSE IF step = 1
       THEN Result(verify_timestamp(seq[i - 1].timestamp,
                       seq[i].timestamp.time + TicksPerSecond),
                   MsgTimestamp(i))
       ELSE Result(verify_reduced_tree(seq[i].reduced,
                       hash_pair(pairs[i].hash,
                           encode_atsc(<<[timestamp |-> seq[i - 1].timestamp]>>),
                           FALSE)),
                   MsgLinkage(i))

FailingChecks(record, pairs, t) ==
    {j \in 1..CheckCount(record) : ~CheckAt(record, pairs, t, j).ok}

\* The result the order of the checks prescribes: the reason of the
\* earliest failing check, success when none fails.
InOrder(record, pairs, t) ==
    IF record = None
    THEN Result(FALSE, MsgInvalid)
    ELSE IF Len(record.archiveTimeStampSequence) = 0
    THEN Result(FALSE, MsgInvalid)
    ELSE LET failing == FailingChecks(record, pairs, t)
         IN IF failing = {}
            THEN Result(TRUE, MsgSuccess)
            ELSE Result(FALSE,
                    CheckAt(record, pairs, t,
                        CHOOSE j \in failing : \A k \in failing : j <= k).msg)

\* The call has a pair for every link of the record it is given.
PairsCoverChain(record, pairs) ==
    \/ record = None
    \/ Len(pairs) >= Len(record.archiveTimeStampSequence)

\* C18: the verifier makes its checks in the order structure, initial,
\* then per chain algorithm, timestamp, linkage, then freshness, and
\* returns the reason of the earliest check that fails; it returns success
\* only when every check, freshness included, succeeds.
C18_StepOrder ==
    (verdict # None /\ PairsCoverChain(verdict.record, verdict.pairs))
    => verdict.result = InOrder(verdict.record, verdict.pairs, now)

\* A call on a record with several defects: the algorithm check and the
\* timestamp check of one chain both fail, and the algorithm reason is
\* the one returned.
C18_Witness ==
    /\ verdict # None
    /\ verdict.record # None
    /\ Len(verdict.record.archiveTimeStampSequence) >= 2
    /\ PairsCoverChain(verdict.record, verdict.pairs)
    /\ {2, 3} \subseteq
          FailingChecks(verdict.record, verdict.pairs, now)
    /\ 1 \notin FailingChecks(verdict.record, verdict.pairs, now)
    /\ verdict.result = Result(FALSE, MsgAlgorithm(2, DriverAlgorithm,
                                                   DriverAlgorithm))

\* Node j of level k of the tree (levels counted from 1).
LevelNode(t, k, j) == t.nodes[t.levels[k][j]]

\* Level 1 is the input list: one childless leaf per digest, in order.
LeavesInOrder(t, hash_values) ==
    /\ Len(t.levels[1]) = Len(hash_values)
    /\ \A i \in 1..Len(hash_values) :
          /\ LevelNode(t, 1, i).hash = hash_values[i]
          /\ LevelNode(t, 1, i).is_leaf
          /\ LevelNode(t, 1, i).left = 0 /\ LevelNode(t, 1, i).right = 0

\* Level k + 1 pairs the nodes of level k left to right: node j has
\* children 2j - 1 and 2j of level k and the digest "left+right"; a
\* trailing node without partner is its only child and gives its digest.
PairedLevel(t, k) ==
    LET n == Len(t.levels[k])
    IN /\ n > 1
       /\ Len(t.levels[k + 1]) = (n + 1) \div 2
       /\ \A j \in 1..Len(t.levels[k + 1]) :
             LET node == LevelNode(t, k + 1, j)
             IN /\ ~node.is_leaf
                /\ node.left = t.levels[k][2 * j - 1]
                /\ node.right = (IF 2 * j <= n THEN t.levels[k][2 * j] ELSE 0)
                /\ node.hash =
                     (IF 2 * j <= n
                      THEN LevelNode(t, k, 2 * j - 1).hash \o "+"
                              \o LevelNode(t, k, 2 * j).hash
                      ELSE LevelNode(t, k, 2 * j - 1).hash)

\* Every node but the root has as parent the node it is a child of.
ParentsPoint(t) ==
    \A i \in 1..Len(t.nodes) :
       IF i = t.root
       THEN t.nodes[i].parent = 0
       ELSE /\ t.nodes[i].parent \in 1..Len(t.nodes)
            /\ \/ t.nodes[t.nodes[i].parent].left = i
               \/ t.nodes[t.nodes[i].parent].right = i

\* C19: the tree built from a non-empty list keeps the list as its first
\* level, builds every next level by pairing left to right with the digest
\* of the pair in that order, carries an unpaired trailing digest up
\* unchanged, stops at the level with one node, the root, and gives every
\* other node the parent it is a child of.
C19_TreeConstruction ==
    (Built /\ Len(initial_hashes) > 0)
    => /\ IsTree(tree)
       /\ LeavesInOrder(tree, initial_hashes)
       /\ \A k \in 1..(Len(tree.levels) - 1) : PairedLevel(tree, k)
       /\ tree.levels[Len(tree.levels)] = <<tree.root>>
       /\ ParentsPoint(tree)
       /\ Len(initial_hashes) = 1 => tree.root = tree.levels[1][1]

\* A tree over three leaves: the third is carried up without a partner.
C19_Witness ==
    /\ Built
    /\ Len(initial_hashes) = 3
    /\ initial_hashes[1] # initial_hashes[2]
    /\ Len(tree.levels) = 3
    /\ LevelNode(tree, 2, 2).hash = initial_hashes[3]
    /\ tree.nodes[tree.root].hash =
          initial_hashes[1] \o "+" \o initial_hashes[2] \o "+"
             \o initial_hashes[3]

\* The path from leaf k of the tree to its root: the reduction for the
\* leaf at that position rather than for the first node with its digest.
PathOfLeaf(t, k) ==
    Climb(t,
          [hash |-> t.nodes[k].hash, left |-> None, right |-> None,
           is_leaf |-> t.nodes[k].is_leaf,
           leaf_position |-> t.nodes[k].leaf_position],
          t.nodes[k].parent)

\* C20: after a renewal pass under algorithm A, the link appended for each
\* entry of the batch holds the path of the shared tree for the leaf at
\* that entry's position and a timestamp over the shared root under A; the
\* record's digestAlgorithm is A and its version and crypto metadata are
\* as created.
C20_PerRecordLink ==
    last_batch # None
    => \A k \in 1..Len(LastBatch) :
          LET r == LastBatch[k].rec
              link == AppendedLink(k)
          IN /\ link.reduced = PathOfLeaf(new_tree, k)
             /\ link.timestamp.hash = new_tree.nodes[new_tree.root].hash
             /\ link.timestamp.algorithm = last_batch.new_hash_algorithm
             /\ records[r].digestAlgorithm = last_batch.new_hash_algorithm
             /\ records[r].version = 1
             /\ records[r].cryptoInfos = <<>>
             /\ records[r].encryptionInfo = None

(***************************************************************************)
(* SpecArchives: a caller keeps records of more than one tree.  After the  *)
(* first tree has given one record, another tree may replace it and give   *)
(* further records; then one renew_hashtree call runs over a batch of up   *)
(* to MaxArchived entries whose new document digests are drawn from        *)
(* RenewalDigests.  A batch of three entries is the shortest in which      *)
(* list.index compares two records of equal chain length, and so the       *)
(* shortest in which the call can end in a RecursionError.  Every read of  *)
(* the clock returns the same instant.                                     *)
(***************************************************************************)
RenewalDigests == {"H1", "H1+h1"}

MaxArchived == 3

\* tree = create_hashtree(hash_values), called again for another archive.
CreateNextHashtree(hash_values) ==
    /\ verdict = None
    /\ IsTree(tree)
    /\ records # <<>>
    /\ last_batch = None
    /\ ~Ended
    /\ tree' = Allocated(create_hashtree(hash_values), FreshId)
    /\ initial_hashes' = hash_values
    /\ UNCHANGED <<reduced, records, docs, new_tree, now, verdict,
                   last_batch, passes>>

ArchiveBatches ==
    SeqsUpTo([rec : 1..Len(records), hash : RenewalDigests], 1,
             MaxArchived - RenewedLinks(records))

NextArchives ==
    \/ \E hs \in SeqsUpTo(Digests, 1, MaxInitial) : CreateHashtree(hs)
    \/ /\ Len(records) = 1
       /\ tree.id = 1
       /\ \E hs \in SeqsUpTo(Digests, 1, MaxInitial) : CreateNextHashtree(hs)
    \/ /\ last_batch = None
       /\ \E h \in Digests : CreateRecord(h, DriverAlgorithm, now, now)
    \/ /\ last_batch = None
       /\ \E b \in ArchiveBatches, a \in Algorithms :
             RenewWithin(MaxArchived, b, a, [k \in 1..Len(b) |-> now])

SpecArchives == Init /\ [][NextArchives]_vars

\* The chain of the record of entry k of the last batch as the pass found
\* it: the first loop of renew_hashtree encodes every chain before the
\* second loop appends any link.
ChainBefore(k) ==
    LET r == LastBatch[k].rec
        appended == Cardinality({j \in 1..Len(LastBatch) :
                                    LastBatch[j].rec = r})
    IN SubSeq(Chain(r), 1, Len(Chain(r)) - appended)

\* The two operands the pass combined for entry k, and the leaf it put
\* into the new tree for that entry.
Operands(k) == <<LastBatch[k].hash, encode_atsc(ChainBefore(k))>>

PassLeaf(k) == LevelNode(new_tree, 1, k).hash

\* C21: every leaf a renewal pass forms has the explicit-grouping form of
\* its two operands, (new document digest) + (encoded-chain digest), and
\* two entries of the pass with different operand pairs never get the same
\* leaf.
C21_GroupedLeaf ==
    last_batch # None
    => /\ \A k \in 1..Len(LastBatch) :
             PassLeaf(k) = "(" \o Operands(k)[1] \o ") + ("
                              \o Operands(k)[2] \o ")"
       /\ \A j, k \in 1..Len(LastBatch) :
             Operands(j) # Operands(k) => PassLeaf(j) # PassLeaf(k)

\* C22: whenever the verifier answers for a record in which some link's
\* timestamp holds a digest other than the root digest of that link's
\* path, the answer is a failure; and whenever the answer is success,
\* every link of the record has a path that recomputes to the digest its
\* timestamp holds.
C22_TimestampBinding ==
    (/\ verdict # None
     /\ verdict.record # None
     /\ "ok" \in DOMAIN verdict.result)
    => LET seq == verdict.record.archiveTimeStampSequence
       IN /\ (\E i \in 1..Len(seq) :
                 /\ seq[i].reduced # None
                 /\ seq[i].reduced.hash # seq[i].timestamp.hash)
             => ~verdict.result.ok
          /\ verdict.result.ok
             => \A i \in 1..Len(seq) :
                   /\ seq[i].reduced # None
                   /\ Recomputed(seq[i].reduced) = seq[i].timestamp.hash
====
